---- MODULE Spec2Model ----
(***************************************************************************)
(* Model of homeassistant/components/mqtt/alarm_control_panel.py           *)
(* (MqttAlarm): the message-driven alarm state, the seven command          *)
(* actions with their code validation, and the publication of commands.    *)
(***************************************************************************)
EXTENDS Integers, Sequences, FiniteSets, TLC

\* ------------------------------------------------------------------ bounds
MaxCalls == 2       \* handler invocations (messages + actions) in one run
MaxInflight == 1    \* actions suspended at "await self.async_publish" at once

\* --------------------------------------------------------------- constants
None == "<None>"                      \* Python's None (never a str value)

STATE_ALARM_DISARMED == "disarmed"
STATE_ALARM_ARMED_HOME == "armed_home"
STATE_ALARM_ARMED_AWAY == "armed_away"
STATE_ALARM_ARMED_NIGHT == "armed_night"
STATE_ALARM_ARMED_VACATION == "armed_vacation"
STATE_ALARM_ARMED_CUSTOM_BYPASS == "armed_custom_bypass"
STATE_ALARM_PENDING == "pending"
STATE_ALARM_ARMING == "arming"
STATE_ALARM_DISARMING == "disarming"
STATE_ALARM_TRIGGERED == "triggered"

DEFAULT_COMMAND_TEMPLATE == "{{action}}"
DEFAULT_ARM_NIGHT == "ARM_NIGHT"
DEFAULT_ARM_VACATION == "ARM_VACATION"
DEFAULT_ARM_AWAY == "ARM_AWAY"
DEFAULT_ARM_HOME == "ARM_HOME"
DEFAULT_ARM_CUSTOM_BYPASS == "ARM_CUSTOM_BYPASS"
DEFAULT_DISARM == "DISARM"
DEFAULT_TRIGGER == "TRIGGER"

REMOTE_CODE == "REMOTE_CODE"
REMOTE_CODE_TEXT == "REMOTE_CODE_TEXT"

\* Variant of RecognizedStates: the tuple lacks the vacation state.
RecognizedStates_NoVacation ==
    { STATE_ALARM_DISARMED,
      STATE_ALARM_ARMED_HOME,
      STATE_ALARM_ARMED_AWAY,
      STATE_ALARM_ARMED_NIGHT,
      STATE_ALARM_ARMED_CUSTOM_BYPASS,
      STATE_ALARM_PENDING,
      STATE_ALARM_ARMING,
      STATE_ALARM_DISARMING,
      STATE_ALARM_TRIGGERED }

\* The tuple tested by "payload not in (...)" in message_received.
RecognizedStates ==
    { STATE_ALARM_DISARMED,
      STATE_ALARM_ARMED_HOME,
      STATE_ALARM_ARMED_AWAY,
      STATE_ALARM_ARMED_NIGHT,
      STATE_ALARM_ARMED_VACATION,
      STATE_ALARM_ARMED_CUSTOM_BYPASS,
      STATE_ALARM_PENDING,
      STATE_ALARM_ARMING,
      STATE_ALARM_DISARMING,
      STATE_ALARM_TRIGGERED }

\* ------------------------------------------------------------ input domains
\* Raw payloads arriving on the state topic.
RawPayloads ==
    { "disarmed", "armed_home", "armed_away", "armed_night", "armed_vacation",
      "armed_custom_bypass", "pending", "arming", "disarming", "triggered",
      "DISARMED", "unknown" }

\* Value templates: none configured, or "{{ value | lower }}".
TPL_LOWER == "{{ value | lower }}"
ValueTemplates == {None, TPL_LOWER}

\* Command templates: the default, or one that also renders the code.
TPL_ACTION_CODE == "{{action}}:{{code}}"
CommandTemplates == {DEFAULT_COMMAND_TEMPLATE, TPL_ACTION_CODE}

\* Configured codes: absent, numeric literal, text literal, the two sentinels.
ConfCodes == {None, "1234", "abcd", REMOTE_CODE, REMOTE_CODE_TEXT}

\* Codes a caller can supply (code=None is the default argument).
SuppliedCodes == {None, "", "1234", "9999"}

\* str.lower() on the raw payloads of the model.
Lower(s) ==
    IF s = "DISARMED" THEN "disarmed" ELSE s

\* Python truthiness of a code argument (None and "" are falsy).
Truthy(code) == code # None /\ code # ""

\* Jinja rendering of a variable: None renders as the text "None".
Text(v) == IF v = None THEN "None" ELSE v

\* PLATFORM_SCHEMA_MODERN: the configurations the schema admits.
Configs ==
    [ code : ConfCodes,
      code_arm_required : BOOLEAN,
      code_disarm_required : BOOLEAN,
      code_trigger_required : BOOLEAN,
      command_template : CommandTemplates,
      value_template : ValueTemplates,
      command_topic : {"alarm/command"},
      state_topic : {"alarm/state"},
      payload_arm_away : {DEFAULT_ARM_AWAY},
      payload_arm_home : {DEFAULT_ARM_HOME},
      payload_arm_night : {DEFAULT_ARM_NIGHT},
      payload_arm_vacation : {DEFAULT_ARM_VACATION},
      payload_arm_custom_bypass : {DEFAULT_ARM_CUSTOM_BYPASS},
      payload_disarm : {DEFAULT_DISARM},
      payload_trigger : {DEFAULT_TRIGGER},
      qos : {0},
      retain : {FALSE},
      encoding : {"utf-8"} ]

VARIABLES
    _config,      \* static configuration (self._config)
    _state,       \* self._state
    ha_writes,    \* number of async_write_ha_state() notifications
    log,          \* _LOGGER.warning calls, counted per message text
    publishing,   \* async_publish calls whose await has not completed
    call,         \* the last handler invoked and its argument
    outcome,      \* how that handler left the event loop: "return" or "await"
    calls,        \* number of handler invocations so far
    returned,     \* the value of the last property read (code_format)
    robot,        \* the Litter-Robot as the SDK reports it: status, last_seen
    now,          \* datetime.now(timezone.utc), in minutes
    events,       \* what the cleaner's services did, in order
    raised,       \* the last cleaner service let an SDK error propagate
    ha_state      \* what the cleaner's available and state properties return

alarm_vars ==
    <<_config, _state, ha_writes, log, publishing, call, outcome, calls,
      returned>>

vacuum_vars == <<robot, now, events, raised, ha_state>>

vars == <<alarm_vars, vacuum_vars>>

\* The cleaner before any service call: just seen, ready, nothing done.
VacuumIdle ==
    /\ robot = [status |-> "READY", last_seen |-> 0]
    /\ now = 0
    /\ events = <<>>
    /\ raised = FALSE
    /\ ha_state = [available |-> TRUE, state |-> "docked"]

WARN_UNEXPECTED == "Received unexpected payload"
WARN_WRONG_CODE == "Wrong code entered"

\* Variant of Init: the panel starts out disarmed instead of unset.
Init_Disarmed ==
    /\ _config \in Configs
    /\ _state = STATE_ALARM_DISARMED
    /\ ha_writes = 0
    /\ log = [w \in {WARN_UNEXPECTED, WARN_WRONG_CODE} |-> 0]
    /\ publishing = <<>>
    /\ call = [op |-> "__init__", arg |-> None]
    /\ outcome = "return"
    /\ calls = 0
    /\ returned = None
    /\ VacuumIdle

\* MqttAlarm.__init__ : self._state = None
Init ==
    /\ _config \in Configs
    /\ _state = None
    /\ ha_writes = 0
    /\ log = [w \in {WARN_UNEXPECTED, WARN_WRONG_CODE} |-> 0]
    /\ publishing = <<>>
    /\ call = [op |-> "__init__", arg |-> None]
    /\ outcome = "return"
    /\ calls = 0
    /\ returned = None
    /\ VacuumIdle

\* self._value_template : MqttValueTemplate(...).async_render_with_possible_json_value
value_template(payload) ==
    IF _config.value_template = None THEN payload ELSE Lower(payload)

\* self._command_template : MqttCommandTemplate(...).async_render
command_template(variables) ==
    IF _config.command_template = DEFAULT_COMMAND_TEMPLATE
    THEN <<variables.action>>
    ELSE <<variables.action, Text(variables.code)>>

Invoke(op, arg) ==
    /\ calls < MaxCalls
    /\ calls' = calls + 1
    /\ call' = [op |-> op, arg |-> arg]
    /\ UNCHANGED <<returned, vacuum_vars>>

\* Variant of message_received: the "return" after the warning is missing.
message_received_NoReturn(msg) ==
    /\ Invoke("message_received", msg)
    /\ LET payload == value_template(msg) IN
       /\ log' = IF payload \notin RecognizedStates
                 THEN [log EXCEPT ![WARN_UNEXPECTED] = @ + 1]
                 ELSE log
       /\ _state' = payload
       /\ ha_writes' = ha_writes + 1
    /\ outcome' = "return"
    /\ UNCHANGED <<_config, publishing>>

\* Variant of message_received: a message that arrives while a publish is
\* outstanding is dropped.
message_received_BusyDrop(msg) ==
    /\ Invoke("message_received", msg)
    /\ LET payload == value_template(msg) IN
       IF payload \notin RecognizedStates
       THEN /\ log' = [log EXCEPT ![WARN_UNEXPECTED] = @ + 1]
            /\ UNCHANGED <<_state, ha_writes>>
       ELSE IF publishing # <<>>
       THEN UNCHANGED <<_state, ha_writes, log>>
       ELSE /\ _state' = payload
            /\ ha_writes' = ha_writes + 1
            /\ UNCHANGED log
    /\ outcome' = "return"
    /\ UNCHANGED <<_config, publishing>>

\* message_received(msg)
message_received(msg) ==
    /\ Invoke("message_received", msg)
    /\ LET payload == value_template(msg) IN
       IF payload \notin RecognizedStates
       THEN /\ log' = [log EXCEPT ![WARN_UNEXPECTED] = @ + 1]
            /\ UNCHANGED <<_state, ha_writes>>
       ELSE /\ _state' = payload
            /\ ha_writes' = ha_writes + 1
            /\ UNCHANGED log
    /\ outcome' = "return"
    /\ UNCHANGED <<_config, publishing>>

\* Variant of _validate_code: a missing code is let through.
_validate_code_AcceptsFalsy(code) ==
    LET conf_code == _config.code IN
       \/ conf_code = None
       \/ ~Truthy(code)
       \/ code = conf_code
       \/ (conf_code = REMOTE_CODE /\ Truthy(code))
       \/ (conf_code = REMOTE_CODE_TEXT /\ Truthy(code))

\* Variant of _validate_code: only the REMOTE_CODE sentinel is known.
_validate_code_NoRemoteText(code) ==
    LET conf_code == _config.code IN
       \/ conf_code = None
       \/ code = conf_code
       \/ (conf_code = REMOTE_CODE /\ Truthy(code))

\* Variant of _validate_code: an absent configured code is compared like
\* any other.
_validate_code_NoUnset(code) ==
    LET conf_code == _config.code IN
       \/ code = conf_code
       \/ (conf_code = REMOTE_CODE /\ Truthy(code))
       \/ (conf_code = REMOTE_CODE_TEXT /\ Truthy(code))

\* MqttAlarm._validate_code: the truth value of "check"
_validate_code(code) ==
    LET conf_code == _config.code IN
       \/ conf_code = None
       \/ code = conf_code
       \/ (conf_code = REMOTE_CODE /\ Truthy(code))
       \/ (conf_code = REMOTE_CODE_TEXT /\ Truthy(code))

\* Variant of _publish: the action is sent as it is, without the template.
_publish_NoTemplate(code, action) ==
    [ topic |-> _config.command_topic,
      payload |-> <<action>>,
      qos |-> _config.qos,
      retain |-> _config.retain,
      encoding |-> _config.encoding ]

\* MqttAlarm._publish: the arguments of the async_publish call
_publish(code, action) ==
    LET variables == [action |-> action, code |-> code]
        payload == command_template(variables)
    IN [ topic |-> _config.command_topic,
         payload |-> payload,
         qos |-> _config.qos,
         retain |-> _config.retain,
         encoding |-> _config.encoding ]

\* Variant of code_required: trigger reads the disarm flag.
code_required_TriggerUsesDisarm(config, op) ==
    CASE op = "async_alarm_disarm" -> config.code_disarm_required
      [] op = "async_alarm_arm_home" -> config.code_arm_required
      [] op = "async_alarm_arm_away" -> config.code_arm_required
      [] op = "async_alarm_arm_night" -> config.code_arm_required
      [] op = "async_alarm_arm_vacation" -> config.code_arm_required
      [] op = "async_alarm_arm_custom_bypass" -> config.code_arm_required
      [] op = "async_alarm_trigger" -> config.code_disarm_required

\* Variant of code_required: arm_vacation is gated by the trigger flag.
code_required_VacationUsesTrigger(config, op) ==
    CASE op = "async_alarm_disarm" -> config.code_disarm_required
      [] op = "async_alarm_arm_home" -> config.code_arm_required
      [] op = "async_alarm_arm_away" -> config.code_arm_required
      [] op = "async_alarm_arm_night" -> config.code_arm_required
      [] op = "async_alarm_arm_vacation" -> config.code_trigger_required
      [] op = "async_alarm_arm_custom_bypass" -> config.code_arm_required
      [] op = "async_alarm_trigger" -> config.code_trigger_required

\* "code_required = self._config[CONF_CODE_..._REQUIRED]" of each coroutine.
code_required(config, op) ==
    CASE op = "async_alarm_disarm" -> config.code_disarm_required
      [] op = "async_alarm_arm_home" -> config.code_arm_required
      [] op = "async_alarm_arm_away" -> config.code_arm_required
      [] op = "async_alarm_arm_night" -> config.code_arm_required
      [] op = "async_alarm_arm_vacation" -> config.code_arm_required
      [] op = "async_alarm_arm_custom_bypass" -> config.code_arm_required
      [] op = "async_alarm_trigger" -> config.code_trigger_required

\* The code_arm_required property of the entity.
code_arm_required == _config.code_arm_required

\* Variant of AlarmAction: the state is updated optimistically on publish.
AlarmAction_Optimistic(op, code, action) ==
    /\ Invoke(op, code)
    /\ IF code_required(_config, op) /\ ~_validate_code(code)
       THEN /\ log' = [log EXCEPT ![WARN_WRONG_CODE] = @ + 1]
            /\ outcome' = "return"
            /\ UNCHANGED <<publishing, _state>>
       ELSE /\ Len(publishing) < MaxInflight
            /\ publishing' = Append(publishing, _publish(code, action))
            /\ outcome' = "await"
            /\ _state' = STATE_ALARM_PENDING
            /\ UNCHANGED log
    /\ UNCHANGED <<_config, ha_writes>>

\* Variant of AlarmAction: the code is validated whatever the flag says.
AlarmAction_AlwaysValidate(op, code, action) ==
    /\ Invoke(op, code)
    /\ IF ~_validate_code(code)
       THEN /\ log' = [log EXCEPT ![WARN_WRONG_CODE] = @ + 1]
            /\ outcome' = "return"
            /\ UNCHANGED publishing
       ELSE /\ Len(publishing) < MaxInflight
            /\ publishing' = Append(publishing, _publish(code, action))
            /\ outcome' = "await"
            /\ UNCHANGED log
    /\ UNCHANGED <<_config, _state, ha_writes>>

\* Variant of AlarmAction: the "return" after a failed validation is missing.
AlarmAction_PublishAnyway(op, code, action) ==
    /\ Invoke(op, code)
    /\ Len(publishing) < MaxInflight
    /\ publishing' = Append(publishing, _publish(code, action))
    /\ outcome' = "await"
    /\ log' = IF code_required(_config, op) /\ ~_validate_code(code)
              THEN [log EXCEPT ![WARN_WRONG_CODE] = @ + 1]
              ELSE log
    /\ UNCHANGED <<_config, _state, ha_writes>>

\* Common shape of the seven async_alarm_* coroutines, up to the point where
\* they return or suspend in async_publish:
\*     if code_required and not self._validate_code(code, ...): return
\*     await self._publish(code, action)
\* "not a and b" short-circuits: _validate_code (and its warning) runs only
\* when code_required is true.
AlarmAction(op, code, action) ==
    /\ Invoke(op, code)
    /\ IF code_required(_config, op) /\ ~_validate_code(code)
       THEN /\ log' = [log EXCEPT ![WARN_WRONG_CODE] = @ + 1]
            /\ outcome' = "return"
            /\ UNCHANGED publishing
       ELSE /\ Len(publishing) < MaxInflight
            /\ publishing' = Append(publishing, _publish(code, action))
            /\ outcome' = "await"
            /\ UNCHANGED log
    /\ UNCHANGED <<_config, _state, ha_writes>>

async_alarm_disarm(code) ==
    AlarmAction("async_alarm_disarm", code, _config.payload_disarm)

async_alarm_arm_home(code) ==
    AlarmAction("async_alarm_arm_home", code, _config.payload_arm_home)

async_alarm_arm_away(code) ==
    AlarmAction("async_alarm_arm_away", code, _config.payload_arm_away)

async_alarm_arm_night(code) ==
    AlarmAction("async_alarm_arm_night", code, _config.payload_arm_night)

async_alarm_arm_vacation(code) ==
    AlarmAction("async_alarm_arm_vacation", code, _config.payload_arm_vacation)

async_alarm_arm_custom_bypass(code) ==
    AlarmAction("async_alarm_arm_custom_bypass", code, _config.payload_arm_custom_bypass)

async_alarm_trigger(code) ==
    AlarmAction("async_alarm_trigger", code, _config.payload_trigger)

\* The await in _publish completes: the oldest outstanding publish is done.
async_publish ==
    /\ publishing # <<>>
    /\ publishing' = Tail(publishing)
    /\ UNCHANGED <<_config, _state, ha_writes, log, call, outcome, calls>>
    /\ UNCHANGED <<returned, vacuum_vars>>

Next ==
    \/ \E msg \in RawPayloads : message_received(msg)
    \/ \E code \in SuppliedCodes : async_alarm_disarm(code)
    \/ \E code \in SuppliedCodes : async_alarm_arm_home(code)
    \/ \E code \in SuppliedCodes : async_alarm_arm_away(code)
    \/ \E code \in SuppliedCodes : async_alarm_arm_night(code)
    \/ \E code \in SuppliedCodes : async_alarm_arm_vacation(code)
    \/ \E code \in SuppliedCodes : async_alarm_arm_custom_bypass(code)
    \/ \E code \in SuppliedCodes : async_alarm_trigger(code)
    \/ async_publish

Spec == Init /\ [][Next]_vars

TypeOK ==
    /\ _config \in Configs
    /\ _state \in RecognizedStates \cup {None}
    /\ ha_writes \in 0..MaxCalls
    /\ calls \in 0..MaxCalls
    /\ Len(publishing) <= MaxInflight

\* ---------------------------------------------------------- code_format
\* alarm.CodeFormat.NUMBER / alarm.CodeFormat.TEXT
CodeFormat_NUMBER == "number"
CodeFormat_TEXT == "text"

\* The characters \d matches, among those of the codes below.
DigitChars == {"0", "1", "2", "3", "4", "5", "6", "7", "8", "9"}

\* Codes the schema's cv.string admits: absent, empty, digits, text, mixed,
\* digits with a trailing newline, and the two sentinels.
FormatCodes ==
    {None, "", "1234", "abcd", "12ab", "1234\n", REMOTE_CODE, REMOTE_CODE_TEXT}

\* The configurations whose code_format is read.
FormatConfigs ==
    { [c EXCEPT !.code = code] : c \in Configs, code \in FormatCodes }

\* The characters of a configured code.
Chars(code) ==
    CASE code = "" -> <<>>
      [] code = "1234" -> <<"1", "2", "3", "4">>
      [] code = "abcd" -> <<"a", "b", "c", "d">>
      [] code = "12ab" -> <<"1", "2", "a", "b">>
      [] code = "1234\n" -> <<"1", "2", "3", "4", "\n">>
      [] code = REMOTE_CODE ->
             <<"R", "E", "M", "O", "T", "E", "_", "C", "O", "D", "E">>
      [] code = REMOTE_CODE_TEXT ->
             <<"R", "E", "M", "O", "T", "E", "_", "C", "O", "D", "E",
               "_", "T", "E", "X", "T">>

\* re.search("^\\d+$", code): one or more digits from the start up to the
\* end of the string, where "$" also matches just before a final newline.
re_search_digits(code) ==
    LET cs == Chars(code)
        n == Len(cs)
        end == IF n > 0 /\ cs[n] = "\n" THEN n - 1 ELSE n
    IN  /\ end >= 1
        /\ \A i \in 1..end : cs[i] \in DigitChars

\* MqttAlarm.code_format
code_format(config) ==
    LET code == config.code IN
    IF code = None THEN None
    ELSE IF code = REMOTE_CODE \/ re_search_digits(code)
         THEN CodeFormat_NUMBER
         ELSE CodeFormat_TEXT

\* Construction of a panel from any configuration the schema admits.
FormatInit ==
    /\ _config \in FormatConfigs
    /\ _state = None
    /\ ha_writes = 0
    /\ log = [w \in {WARN_UNEXPECTED, WARN_WRONG_CODE} |-> 0]
    /\ publishing = <<>>
    /\ call = [op |-> "__init__", arg |-> None]
    /\ outcome = "return"
    /\ calls = 0
    /\ returned = None
    /\ VacuumIdle

\* The host reads the code_format property.
read_code_format ==
    /\ calls < MaxCalls
    /\ calls' = calls + 1
    /\ call' = [op |-> "code_format", arg |-> None]
    /\ returned' = code_format(_config)
    /\ outcome' = "return"
    /\ UNCHANGED <<_config, _state, ha_writes, log, publishing, vacuum_vars>>

FormatNext ==
    \/ read_code_format
    \/ \E msg \in RawPayloads : message_received(msg)

FormatSpec == FormatInit /\ [][FormatNext]_vars

\* ------------------------------------------ litterrobot/vacuum.py
MaxServiceCalls == 1    \* cleaner service calls in one run

STATE_CLEANING == "cleaning"
STATE_DOCKED == "docked"
STATE_ERROR == "error"
STATE_PAUSED == "paused"
STATE_OFF == "off"

\* Members of pylitterbot's LitterBoxStatus: the nine of the mapping table
\* and four it does not list.
LitterBoxStatus ==
    { "CLEAN_CYCLE", "EMPTY_CYCLE", "CLEAN_CYCLE_COMPLETE",
      "CAT_SENSOR_TIMING", "DRAWER_FULL_1", "DRAWER_FULL_2", "READY",
      "CAT_SENSOR_INTERRUPTED", "OFF",
      "PAUSED", "OFFLINE", "DRAWER_FULL", "UNKNOWN" }

\* Variant of LITTER_BOX_STATUS_STATE_MAP: the READY entry is missing.
LITTER_BOX_STATUS_STATE_MAP_NoReady ==
    ("CLEAN_CYCLE" :> STATE_CLEANING)
    @@ ("EMPTY_CYCLE" :> STATE_CLEANING)
    @@ ("CLEAN_CYCLE_COMPLETE" :> STATE_DOCKED)
    @@ ("CAT_SENSOR_TIMING" :> STATE_DOCKED)
    @@ ("DRAWER_FULL_1" :> STATE_DOCKED)
    @@ ("DRAWER_FULL_2" :> STATE_DOCKED)
    @@ ("CAT_SENSOR_INTERRUPTED" :> STATE_PAUSED)
    @@ ("OFF" :> STATE_OFF)

LITTER_BOX_STATUS_STATE_MAP ==
    ("CLEAN_CYCLE" :> STATE_CLEANING)
    @@ ("EMPTY_CYCLE" :> STATE_CLEANING)
    @@ ("CLEAN_CYCLE_COMPLETE" :> STATE_DOCKED)
    @@ ("CAT_SENSOR_TIMING" :> STATE_DOCKED)
    @@ ("DRAWER_FULL_1" :> STATE_DOCKED)
    @@ ("DRAWER_FULL_2" :> STATE_DOCKED)
    @@ ("READY" :> STATE_DOCKED)
    @@ ("CAT_SENSOR_INTERRUPTED" :> STATE_PAUSED)
    @@ ("OFF" :> STATE_OFF)

\* timedelta(minutes=30), in minutes
UNAVAILABLE_AFTER == 30

\* pylitterbot's VALID_WAIT_TIMES, as the service schema passes them on.
VALID_WAIT_TIMES == {"3", "7", "15"}

\* Instants (minutes) at which the clock is read or the robot was seen.
Instants == {0, 1, 29, 30, 31}

\* Variant of available: a robot seen exactly 30 minutes ago still counts.
LitterRobotCleaner_available_Inclusive(r, t) ==
    r.last_seen >= t - UNAVAILABLE_AFTER

\* LitterRobotCleaner.available
LitterRobotCleaner_available(r, t) ==
    r.last_seen > t - UNAVAILABLE_AFTER

\* LitterRobotCleaner.state : LITTER_BOX_STATUS_STATE_MAP.get(status, STATE_ERROR)
LitterRobotCleaner_state(r) ==
    IF r.status \in DOMAIN LITTER_BOX_STATUS_STATE_MAP
    THEN LITTER_BOX_STATUS_STATE_MAP[r.status]
    ELSE STATE_ERROR

\* The properties as the host reads them for robot r at instant t.
HaState(r, t) ==
    [ available |-> LitterRobotCleaner_available(r, t),
      state |-> LitterRobotCleaner_state(r) ]

\* Entries of the cleaner's event trace.
Event(kind, name, arg, ok) ==
    [kind |-> kind, name |-> name, arg |-> arg, ok |-> ok]

\* LitterRobotControlEntity.perform_action_and_refresh: await the SDK call;
\* an error propagates to the caller; otherwise force a data refresh.
perform_action_and_refresh(action, arg, ok) ==
    <<Event("sdk", action, arg, ok)>>
    \o (IF ok THEN <<Event("refresh", "refresh", None, TRUE)>> ELSE <<>>)

\* One service call on the cleaner entity: what it did is appended to the
\* trace; nothing else of the adapter changes.
Service(name, arg, did, failed) ==
    /\ Cardinality({i \in 1..Len(events) : events[i].kind = "service"})
           < MaxServiceCalls
    /\ events' = events \o <<Event("service", name, arg, TRUE)>> \o did
    /\ raised' = failed
    /\ UNCHANGED <<robot, now, ha_state, alarm_vars>>

\* Variant of async_turn_on: the unit is switched off instead of on.
async_turn_on_PowersOff ==
    \E ok \in BOOLEAN :
        Service("async_turn_on", None,
                perform_action_and_refresh("set_power_status", "False", ok),
                ~ok)

\* LitterRobotCleaner.async_turn_on
async_turn_on ==
    \E ok \in BOOLEAN :
        Service("async_turn_on", None,
                perform_action_and_refresh("set_power_status", "True", ok),
                ~ok)

\* LitterRobotCleaner.async_turn_off
async_turn_off ==
    \E ok \in BOOLEAN :
        Service("async_turn_off", None,
                perform_action_and_refresh("set_power_status", "False", ok),
                ~ok)

\* LitterRobotCleaner.async_start
async_start ==
    \E ok \in BOOLEAN :
        Service("async_start", None,
                perform_action_and_refresh("start_cleaning", None, ok),
                ~ok)

\* Variant of async_reset_waste_drawer: the warning is logged after the call.
async_reset_waste_drawer_WarnsLate ==
    \E ok \in BOOLEAN :
        Service("async_reset_waste_drawer", None,
                <<Event("sdk", "reset_waste_drawer", None, ok)>>
                \o (IF ok
                    THEN <<Event("warning", "reset_waste_drawer", None, TRUE),
                           Event("refresh", "async_set_updated_data",
                                 "True", TRUE)>>
                    ELSE <<>>),
                ~ok)

\* LitterRobotCleaner.async_reset_waste_drawer
async_reset_waste_drawer ==
    \E ok \in BOOLEAN :
        Service("async_reset_waste_drawer", None,
                <<Event("warning", "reset_waste_drawer", None, TRUE),
                  Event("sdk", "reset_waste_drawer", None, ok)>>
                \o (IF ok
                    THEN <<Event("refresh", "async_set_updated_data",
                                 "True", TRUE)>>
                    ELSE <<>>),
                ~ok)

\* LitterRobotCleaner.async_set_wait_time
async_set_wait_time(minutes) ==
    \E ok \in BOOLEAN :
        Service("async_set_wait_time", minutes,
                <<Event("warning", "set_wait_time", None, TRUE)>>
                \o perform_action_and_refresh("set_wait_time", minutes, ok),
                ~ok)

\* The coordinator delivers fresh robot data; the entity writes its state.
coordinator_update ==
    /\ \E status \in LitterBoxStatus, last_seen \in Instants :
           robot' = [status |-> status, last_seen |-> last_seen]
    /\ ha_state' = HaState(robot', now)
    /\ UNCHANGED <<now, events, raised, alarm_vars>>

\* Time passes; the properties are evaluated against the new clock reading.
tick ==
    /\ \E t \in Instants : t > now /\ now' = t
    /\ ha_state' = HaState(robot, now')
    /\ UNCHANGED <<robot, events, raised, alarm_vars>>

VacuumInit ==
    /\ _config = CHOOSE c \in Configs :
                     /\ c.code = None
                     /\ c.command_template = DEFAULT_COMMAND_TEMPLATE
                     /\ c.value_template = None
                     /\ c.code_arm_required
                     /\ c.code_disarm_required
                     /\ c.code_trigger_required
    /\ _state = None
    /\ ha_writes = 0
    /\ log = [w \in {WARN_UNEXPECTED, WARN_WRONG_CODE} |-> 0]
    /\ publishing = <<>>
    /\ call = [op |-> "__init__", arg |-> None]
    /\ outcome = "return"
    /\ calls = 0
    /\ returned = None
    /\ VacuumIdle

VacuumNext ==
    \/ async_turn_on
    \/ async_turn_off
    \/ async_start
    \/ async_reset_waste_drawer
    \/ \E minutes \in VALID_WAIT_TIMES : async_set_wait_time(minutes)
    \/ coordinator_update
    \/ tick

VacuumSpec == VacuumInit /\ [][VacuumNext]_vars

\* ======================================================================
\* Properties
\* ======================================================================

\* The ten state strings the panel recognizes, as the specification lists them.
TenStates ==
    { "disarmed", "armed_home", "armed_away", "armed_night", "armed_vacation",
      "armed_custom_bypass", "pending", "arming", "disarming", "triggered" }

\* The names of the seven action handlers.
ActionOps ==
    { "async_alarm_disarm", "async_alarm_arm_home", "async_alarm_arm_away",
      "async_alarm_arm_night", "async_alarm_arm_vacation",
      "async_alarm_arm_custom_bypass", "async_alarm_trigger" }

\* This step is the invocation of message_received.
MessageStep == calls' = calls + 1 /\ call'.op = "message_received"

\* This step is the invocation of one of the seven actions.
ActionStep == calls' = calls + 1 /\ call'.op \in ActionOps

\* The step made exactly one more async_publish call.
PublishedOne ==
    /\ Len(publishing') = Len(publishing) + 1
    /\ SubSeq(publishing', 1, Len(publishing)) = publishing

\* The step made no async_publish call.
PublishedNothing == publishing' = publishing

\* C1: a message whose rendered value is one of the ten recognized strings
\* sets the state to exactly that string, from any prior state, and notifies
\* the host of the state change exactly once.
C1_RecognizedMessageSetsState ==
    [][ (MessageStep /\ value_template(call'.arg) \in TenStates)
        => /\ _state' = value_template(call'.arg)
           /\ ha_writes' = ha_writes + 1 ]_vars

\* C1 witness: a second recognized message has been received (so the prior
\* state was a recognized one) and the state is its rendered value.
C1_Witness ==
    /\ call.op = "message_received"
    /\ value_template(call.arg) \in TenStates
    /\ _state = value_template(call.arg)
    /\ ha_writes = 2

\* C2: a message whose rendered value is not recognized leaves the state as
\* it was, logs a warning, makes no host notification and returns normally.
C2_UnrecognizedMessageDropped ==
    [][ (MessageStep /\ value_template(call'.arg) \notin TenStates)
        => /\ _state' = _state
           /\ log'[WARN_UNEXPECTED] = log[WARN_UNEXPECTED] + 1
           /\ ha_writes' = ha_writes
           /\ outcome' = "return" ]_vars

\* C2 witness: an unrecognized message arrived after a recognized one and
\* the state is still set.
C2_Witness ==
    /\ call.op = "message_received"
    /\ value_template(call.arg) \notin TenStates
    /\ _state \in TenStates
    /\ log[WARN_UNEXPECTED] = 1
    /\ ha_writes = 1

\* C3: no action changes the state, whether it publishes or is aborted by
\* code validation; every step that changes the state is a message receipt.
C3_OnlyMessagesWriteState ==
    [][ /\ (ActionStep => _state' = _state)
        /\ (_state' # _state => MessageStep) ]_vars

\* C3 witness: with a state already set, an action was aborted by code
\* validation and the state is still set.
C3_Witness ==
    /\ calls = 2
    /\ call.op \in ActionOps
    /\ log[WARN_WRONG_CODE] = 1
    /\ ha_writes = 1
    /\ _state \in TenStates

\* C4: the state starts unset and stays unset until a message with a
\* recognized rendered value is received; each such message makes the state
\* its rendered value and no other step changes it, so the state is always
\* unset or one of the ten strings.
C4_StateIsLastRecognized ==
    /\ _state = None
    /\ [][ IF MessageStep /\ value_template(call'.arg) \in TenStates
           THEN _state' = value_template(call'.arg)
           ELSE _state' = _state ]_vars
    /\ [](_state \in TenStates \cup {None})

\* C4 witness: an unrecognized message left the state unset, then a
\* recognized one set it.
C4_Witness ==
    /\ calls = 2
    /\ log[WARN_UNEXPECTED] = 1
    /\ call.op = "message_received"
    /\ _state = value_template(call.arg)
    /\ _state \in TenStates
    /\ ha_writes = 1

\* The flag that gates each action: disarm and trigger have their own, the
\* five arm actions share code_arm_required.
FlagOf(op) ==
    IF op = "async_alarm_disarm" THEN "code_disarm_required"
    ELSE IF op = "async_alarm_trigger" THEN "code_trigger_required"
    ELSE "code_arm_required"

\* The value of that flag in the running configuration.
RequiredFlag(op) == _config[FlagOf(op)]

\* Configured codes that are literal digit strings.
NumericLiteralCodes == {"1234"}

\* The two sentinel codes.
SentinelCodes == {"REMOTE_CODE", "REMOTE_CODE_TEXT"}

\* C5: with the action's flag true and a literal numeric code configured, an
\* action publishes when the supplied code equals the configured code and
\* publishes nothing for any other supplied value (None and "" included).
C5_LiteralCodeMustMatch ==
    [][ (ActionStep /\ RequiredFlag(call'.op)
           /\ _config.code \in NumericLiteralCodes)
        => IF call'.arg = _config.code THEN PublishedOne
                                       ELSE PublishedNothing ]_vars

\* C5 witness: one action was refused with a wrong code, the next was
\* published with the configured code.
C5_Witness ==
    /\ _config.code \in NumericLiteralCodes
    /\ calls = 2
    /\ log[WARN_WRONG_CODE] = 1
    /\ call.op \in ActionOps
    /\ RequiredFlag(call.op)
    /\ call.arg = _config.code
    /\ Len(publishing) = 1

\* C6: with the action's flag false, the action publishes whatever code is
\* supplied and whatever code is configured, and logs no wrong-code warning.
C6_NotRequiredAlwaysPublishes ==
    [][ (ActionStep /\ ~RequiredFlag(call'.op))
        => PublishedOne /\ log' = log ]_vars

\* C6 witness: flag false, a literal code configured, a different code
\* supplied, and the command was published without a warning.
C6_Witness ==
    /\ call.op \in ActionOps
    /\ ~RequiredFlag(call.op)
    /\ _config.code = "1234"
    /\ call.arg = "9999"
    /\ Len(publishing) = 1
    /\ log[WARN_WRONG_CODE] = 0

\* C7: with a sentinel code configured and the action's flag true, every
\* non-empty supplied code publishes; None and "" publish nothing.
C7_SentinelAcceptsNonEmpty ==
    [][ (ActionStep /\ RequiredFlag(call'.op)
           /\ _config.code \in SentinelCodes)
        => IF call'.arg \notin {None, ""} THEN PublishedOne
                                          ELSE PublishedNothing ]_vars

\* C7 witness: under REMOTE_CODE_TEXT an action was refused (empty or no
\* code) and the next, with a non-empty code, was published.
C7_Witness ==
    /\ _config.code = "REMOTE_CODE_TEXT"
    /\ calls = 2
    /\ log[WARN_WRONG_CODE] = 1
    /\ call.op \in ActionOps
    /\ RequiredFlag(call.op)
    /\ call.arg = "9999"
    /\ Len(publishing) = 1

\* C8: when code validation fails, the action logs a warning, returns
\* normally, publishes nothing and leaves the state unchanged.
C8_FailedValidationAborts ==
    [][ (ActionStep /\ code_required(_config, call'.op)
           /\ ~_validate_code(call'.arg))
        => /\ log'[WARN_WRONG_CODE] = log[WARN_WRONG_CODE] + 1
           /\ outcome' = "return"
           /\ PublishedNothing
           /\ _state' = _state ]_vars

\* C8 witness: an action invoked without a code was refused under a literal
\* configured code; nothing is outstanding.
C8_Witness ==
    /\ call.op \in ActionOps
    /\ call.arg = None
    /\ _config.code = "1234"
    /\ outcome = "return"
    /\ log[WARN_WRONG_CODE] = 1
    /\ publishing = <<>>

\* C9: with no code configured, validation accepts every supplied code, so
\* every action publishes even when its flag is true.
C9_NoCodeConfiguredAcceptsAll ==
    [][ (ActionStep /\ _config.code = None)
        => /\ \A code \in SuppliedCodes : _validate_code(code)
           /\ PublishedOne
           /\ log' = log ]_vars

\* C9 witness: no code configured, flag true, a code supplied, published.
C9_Witness ==
    /\ _config.code = None
    /\ call.op \in ActionOps
    /\ RequiredFlag(call.op)
    /\ call.arg = "1234"
    /\ outcome = "await"
    /\ Len(publishing) = 1

\* The configurations that differ from the running one in nothing but the
\* three code-required flags.
Reconfigured ==
    { [_config EXCEPT !.code_arm_required = f[1],
                      !.code_disarm_required = f[2],
                      !.code_trigger_required = f[3]] :
          f \in BOOLEAN \X BOOLEAN \X BOOLEAN }

\* Some configuration requires a code for action a and none for action b.
Independent(R, a, b) ==
    \E c \in R : code_required(c, a) /\ ~code_required(c, b)

\* C10 as stated: every action has a flag of its own, so for any two
\* distinct actions the panel can be configured to require a code for the
\* first and not for the second.
C10_SevenIndependentFlags ==
    LET R == Reconfigured IN
    \A a, b \in ActionOps : a # b => Independent(R, a, b)

\* C10 amended: there are three independent flags; two actions gated by
\* different flags can be configured independently, while the five arm
\* actions share one flag and always require a code together.
C10_ThreeIndependentFlags ==
    LET R == Reconfigured IN
    \A a, b \in ActionOps :
        IF FlagOf(a) # FlagOf(b)
        THEN Independent(R, a, b)
        ELSE code_required(_config, a) = code_required(_config, b)

\* C10 witness: a code is required for disarm only; disarm was refused and
\* arm_home, with the same lack of a valid code, was published.
C10_Witness ==
    /\ _config.code_disarm_required
    /\ ~_config.code_arm_required
    /\ ~_config.code_trigger_required
    /\ _config.code = "1234"
    /\ calls = 2
    /\ log[WARN_WRONG_CODE] = 1
    /\ call.op = "async_alarm_arm_home"
    /\ call.arg = None
    /\ Len(publishing) = 1

\* The payload string configured for each action.
PayloadOf(op) ==
    CASE op = "async_alarm_disarm" -> _config.payload_disarm
      [] op = "async_alarm_arm_home" -> _config.payload_arm_home
      [] op = "async_alarm_arm_away" -> _config.payload_arm_away
      [] op = "async_alarm_arm_night" -> _config.payload_arm_night
      [] op = "async_alarm_arm_vacation" -> _config.payload_arm_vacation
      [] op = "async_alarm_arm_custom_bypass" -> _config.payload_arm_custom_bypass
      [] op = "async_alarm_trigger" -> _config.payload_trigger

\* The one message an action is expected to publish.
ExpectedMessage(op, code) ==
    [ topic |-> _config.command_topic,
      payload |-> command_template([action |-> PayloadOf(op), code |-> code]),
      qos |-> _config.qos,
      retain |-> _config.retain,
      encoding |-> _config.encoding ]

\* The action is not aborted by code validation.
NotAborted(op, code) == ~RequiredFlag(op) \/ _validate_code(code)

\* C11: an action that is not aborted by code validation publishes exactly
\* one message: to the configured command topic, with the configured QoS,
\* retain and encoding, its payload the command template rendered with the
\* action's configured payload string and the supplied code; under the
\* default template, arm_away with no code and no code required publishes
\* ARM_AWAY.
C11_PublishesOneRenderedMessage ==
    [][ /\ (ActionStep /\ NotAborted(call'.op, call'.arg))
            => publishing' =
                   Append(publishing, ExpectedMessage(call'.op, call'.arg))
        /\ (/\ ActionStep
            /\ call'.op = "async_alarm_arm_away"
            /\ call'.arg = None
            /\ ~_config.code_arm_required
            /\ _config.command_template = "{{action}}")
            => publishing'[Len(publishing')].payload = <<"ARM_AWAY">> ]_vars

\* C11 witness: a template that renders the code; disarm with the configured
\* code has one message outstanding whose payload carries action and code.
C11_Witness ==
    /\ _config.command_template = TPL_ACTION_CODE
    /\ _config.code = "1234"
    /\ _config.code_disarm_required
    /\ call.op = "async_alarm_disarm"
    /\ call.arg = "1234"
    /\ publishing = << [ topic |-> "alarm/command",
                         payload |-> <<"DISARM", "1234">>,
                         qos |-> 0,
                         retain |-> FALSE,
                         encoding |-> "utf-8" ] >>

\* The code is made of digits and nothing else.
OnlyDigits(code) ==
    /\ Chars(code) # <<>>
    /\ \A i \in 1..Len(Chars(code)) : Chars(code)[i] \in DigitChars

\* C12: code_format is None when no code is configured, NUMBER when the
\* code is the REMOTE_CODE sentinel or consists only of digits, and TEXT for
\* every other configured code (REMOTE_CODE_TEXT included).
C12_CodeFormatByDigits ==
    call.op = "code_format"
        => returned = IF _config.code = None THEN None
                      ELSE IF _config.code = "REMOTE_CODE"
                              \/ OnlyDigits(_config.code)
                           THEN "number"
                           ELSE "text"

\* C13: the cleaner is available exactly when less than 30 minutes have
\* passed since the robot was last seen: at 30 minutes or more it is not;
\* the robot's status plays no part.
C13_AvailableWithin30Minutes ==
    /\ ha_state.available <=> (now - robot.last_seen < 30)
    /\ \A status \in LitterBoxStatus :
           LitterRobotCleaner_available([robot EXCEPT !.status = status], now)
               = ha_state.available

\* C13 witness: a robot in status READY last seen exactly 30 minutes ago is
\* reported unavailable.
C13_Witness ==
    /\ now - robot.last_seen = 30
    /\ robot.status = "READY"
    /\ ~ha_state.available

\* The statuses the mapping table lists.
ListedStatuses ==
    { "CLEAN_CYCLE", "EMPTY_CYCLE", "CLEAN_CYCLE_COMPLETE",
      "CAT_SENSOR_TIMING", "DRAWER_FULL_1", "DRAWER_FULL_2", "READY",
      "CAT_SENSOR_INTERRUPTED", "OFF" }

\* C14: the cleaner's state is defined for every status and is one of
\* cleaning, docked, paused, off, error: OFF gives off, READY docked,
\* CLEAN_CYCLE cleaning, and a status the table does not list gives error.
C14_StateIsTotal ==
    /\ ha_state.state \in {"cleaning", "docked", "paused", "off", "error"}
    /\ robot.status = "OFF" => ha_state.state = "off"
    /\ robot.status = "READY" => ha_state.state = "docked"
    /\ robot.status = "CLEAN_CYCLE" => ha_state.state = "cleaning"
    /\ robot.status \notin ListedStatuses => ha_state.state = "error"

\* C14 witness: the robot reported PAUSED, which the table does not list, and
\* the state read is error.
C14_Witness ==
    /\ robot.status = "PAUSED"
    /\ ha_state.state = "error"

\* What service call i did: the trace after it, up to the next service call.
SegmentOf(i) ==
    LET later == {j \in (i + 1)..Len(events) : events[j].kind = "service"}
        last == IF later = {}
                THEN Len(events)
                ELSE (CHOOSE j \in later : \A k \in later : j <= k) - 1
    IN SubSeq(events, i + 1, last)

\* The number of entries of a kind in a piece of the trace.
CountKind(seg, kind) == Cardinality({j \in 1..Len(seg) : seg[j].kind = kind})

\* The SDK operation and argument each power/start service stands for.
SdkCallOf(name) ==
    CASE name = "async_turn_on" -> <<"set_power_status", "True">>
      [] name = "async_turn_off" -> <<"set_power_status", "False">>
      [] name = "async_start" -> <<"start_cleaning", None>>

\* C15: turn_on, turn_off and start each make exactly one SDK call, the one
\* they stand for, and force exactly one data refresh after that call has
\* completed (none when the call raised); the call and the refresh are
\* never repeated, and the adapter keeps no state of its own while doing so.
C15_OneCallThenRefresh ==
    /\ [](\A i \in 1..Len(events) :
            (/\ events[i].kind = "service"
             /\ events[i].name \in
                    {"async_turn_on", "async_turn_off", "async_start"})
            => LET seg == SegmentOf(i) IN
               /\ CountKind(seg, "sdk") = 1
               /\ seg[1].kind = "sdk"
               /\ <<seg[1].name, seg[1].arg>> = SdkCallOf(events[i].name)
               /\ CountKind(seg, "refresh") = IF seg[1].ok THEN 1 ELSE 0
               /\ seg[1].ok => seg[2].kind = "refresh"
               /\ Len(seg) = IF seg[1].ok THEN 2 ELSE 1)
    /\ [][events' # events => UNCHANGED <<robot, now, ha_state>>]_vars

\* C15 witness: turn_on made its set_power_status(True) call, the call
\* completed and the refresh followed.
C15_Witness ==
    /\ Len(events) = 3
    /\ events[1].name = "async_turn_on"
    /\ events[2] = Event("sdk", "set_power_status", "True", TRUE)
    /\ events[3].kind = "refresh"
    /\ ~raised

\* The SDK operation each deprecated service stands for.
LegacyCallOf(name) ==
    CASE name = "async_reset_waste_drawer" -> "reset_waste_drawer"
      [] name = "async_set_wait_time" -> "set_wait_time"

\* C16: reset_waste_drawer and set_wait_time log their deprecation warning
\* first, then always make the SDK call, and after a completed call update
\* the data; the warning never prevents the call.
C16_WarnsThenDelegates ==
    \A i \in 1..Len(events) :
        (/\ events[i].kind = "service"
         /\ events[i].name \in
                {"async_reset_waste_drawer", "async_set_wait_time"})
        => LET seg == SegmentOf(i) IN
           /\ Len(seg) >= 2
           /\ seg[1].kind = "warning"
           /\ seg[1].name = LegacyCallOf(events[i].name)
           /\ seg[2].kind = "sdk"
           /\ seg[2].name = LegacyCallOf(events[i].name)
           /\ seg[2].arg = events[i].arg
           /\ CountKind(seg, "warning") = 1
           /\ CountKind(seg, "sdk") = 1
           /\ seg[2].ok => (Len(seg) = 3 /\ seg[3].kind = "refresh")

\* C16 witness: set_wait_time(7) warned, called the SDK with 7 and refreshed.
C16_Witness ==
    /\ Len(events) = 4
    /\ events[1] = Event("service", "async_set_wait_time", "7", TRUE)
    /\ events[2].kind = "warning"
    /\ events[3] = Event("sdk", "set_wait_time", "7", TRUE)
    /\ events[4].kind = "refresh"

\* C17: there are three code-required flags. Each action is gated by the flag
\* of its group (the five arm actions by code_arm_required, disarm by
\* code_disarm_required, trigger by code_trigger_required): with that flag
\* false it publishes whatever the code, with it true and a code that fails
\* validation it warns and publishes nothing. The code_arm_required property
\* reports the arm flag, and a configuration that differs only in the flags
\* of other groups requires a code for the action exactly when the running
\* one does.
C17_ThreeFlagsGateActions ==
    [][ ActionStep
        => LET op == call'.op IN
           /\ ~RequiredFlag(op) => (PublishedOne /\ log' = log)
           /\ (RequiredFlag(op) /\ ~_validate_code(call'.arg))
                 => /\ PublishedNothing
                    /\ log'[WARN_WRONG_CODE] = log[WARN_WRONG_CODE] + 1
           /\ code_arm_required = _config["code_arm_required"]
           /\ (FlagOf(op) = "code_arm_required")
                 => code_required(_config, op) = code_arm_required
           /\ \A c \in Reconfigured :
                 c[FlagOf(op)] = _config[FlagOf(op)]
                   => code_required(c, op) = code_required(_config, op) ]_vars

\* C17 witness: only the trigger flag is set; trigger was refused with a
\* wrong code and arm_vacation, with the same wrong code, was published.
C17_Witness ==
    /\ _config.code_trigger_required
    /\ ~code_arm_required
    /\ ~_config.code_disarm_required
    /\ _config.code = "1234"
    /\ calls = 2
    /\ log[WARN_WRONG_CODE] = 1
    /\ call.op = "async_alarm_arm_vacation"
    /\ call.arg = "9999"
    /\ Len(publishing) = 1

\* C18: what an action publishes is decided by the configuration, the action
\* and the supplied code alone, whatever the state; an action never writes
\* the state. A message that arrives while an action is suspended at its
\* publish still updates the state, and changes neither the payload nor the
\* number of messages being published; the completion of the publish leaves
\* the state alone.
C18_PublishAndReceiveDoNotInterfere ==
    [][ /\ ActionStep
          => /\ publishing' =
                  IF RequiredFlag(call'.op) /\ ~_validate_code(call'.arg)
                  THEN publishing
                  ELSE Append(publishing,
                              ExpectedMessage(call'.op, call'.arg))
             /\ _state' = _state
             /\ ha_writes' = ha_writes
        /\ (MessageStep /\ publishing # <<>>)
          => /\ publishing' = publishing
             /\ value_template(call'.arg) \in TenStates
                  => /\ _state' = value_template(call'.arg)
                     /\ ha_writes' = ha_writes + 1
        /\ (calls' = calls /\ publishing' # publishing)
          => /\ publishing' = Tail(publishing)
             /\ _state' = _state ]_vars

\* C18 witness: an action is suspended at its publish, a recognized message
\* has arrived meanwhile and set the state, and the one message is still
\* outstanding.
C18_Witness ==
    /\ calls = 2
    /\ call.op = "message_received"
    /\ value_template(call.arg) \in TenStates
    /\ _state = value_template(call.arg)
    /\ ha_writes = 1
    /\ Len(publishing) = 1
    /\ outcome = "return"

====
